---- MODULE Spec2Model ----
(***************************************************************************)
(* Model of FinancialData.py: symbol resolution (remote sources and local  *)
(* ticker file), chunked retrieval from the market-data provider, monthly  *)
(* aggregation of one ticker's daily table, and the run_sp500 pipeline.    *)
(*                                                                         *)
(* Strings the code transforms character by character (symbols, file       *)
(* lines) are sequences of one-character strings.  A timestamp is a triple *)
(* <<year, month, day>>.  A DataFrame is a record [index, columns] where   *)
(* columns maps a column name to its sequence of values.                   *)
(***************************************************************************)
EXTENDS Integers, Sequences, FiniteSets, TLC

VARIABLES
    pc,               \* position of run_sp500 / main
    max_tickers,      \* --max-tickers (None is modelled as 0, both falsy)
    chunk_size,       \* --chunk-size
    attempts,         \* remote sources contacted so far, in order, with outcome
    tickers_list,     \* result of fetch_sp500_symbols
    i,                \* loop offset of chunked_download
    requests,         \* provider requests issued so far, with the response shape
    frames,           \* dict ticker -> DataFrame, in insertion order
    pos,              \* number of items of data_dict already processed
    stats_frames,     \* list of per-ticker stats tables
    rows_2024_counts, \* dict ticker -> rows_used, in insertion order
    combined_monthly, \* the concatenated table
    artifact,         \* combined_monthly_sp500_2024.csv: written or not, and its rows
    warnings,         \* logging.warning records
    error,            \* exception that left run_sp500, None if none
    fh,               \* lines of the ticker file
    limit,            \* limit argument of load_tickers_from_file (None is 0)
    out               \* load_tickers_from_file: returned or not, and the value

vars == <<pc, max_tickers, chunk_size, attempts, tickers_list, i, requests,
          frames, pos, stats_frames, rows_2024_counts, combined_monthly,
          artifact, warnings, error, fh, limit, out>>

runVars == <<pc, max_tickers, chunk_size, attempts, tickers_list, i, requests,
             frames, pos, stats_frames, rows_2024_counts, combined_monthly,
             artifact, warnings, error>>

fileVars == <<fh, limit, out>>

None == "None"

\* a float cell of a table: the fraction num/den, or NaN
Float(num, den) == [nan |-> FALSE, num |-> num, den |-> den]

NaN == [nan |-> TRUE, num |-> 0, den |-> 1]

(***************************************************************************)
(* Bounds of the model.                                                    *)
(***************************************************************************)
MaxSyms == 3

MaxChunkSize == 2

MaxLimit == 2

MaxLines == 3

(***************************************************************************)
(* Python built-ins used by the code.                                      *)
(***************************************************************************)
Range(s) == {s[k] : k \in DOMAIN s}

MinOf(a, b) == IF a <= b THEN a ELSE b

\* s[a:b] for 0 <= a, 0 <= b: positions a .. b-1 (0-based), clamped to len(s)
PySlice(s, a, b) == SubSeq(s, a + 1, MinOf(b, Len(s)))

\* s[:n]: a negative n counts from the end
PyPrefix(s, n) == IF n >= 0 THEN PySlice(s, 0, n)
                  ELSE IF Len(s) + n > 0 THEN PySlice(s, 0, Len(s) + n) ELSE <<>>

RECURSIVE Concat(_)
Concat(ss) == IF ss = <<>> THEN <<>> ELSE Head(ss) \o Concat(Tail(ss))

(***************************************************************************)
(* fetch_sp500_symbols                                                     *)
(***************************************************************************)
urls == <<"raw.githubusercontent.com", "datahub.io">>

\* str.replace(".", "-", regex=False)
ReplaceDot(s) == [k \in DOMAIN s |-> IF s[k] = "." THEN "-" ELSE s[k]]

\* Symbol column of a source document -> list of provider symbols
SymsOf(doc) == [k \in DOMAIN doc |-> ReplaceDot(doc[k])]

\* if limit: return syms[:limit] ; return syms
ApplyLimit(syms, lim) == IF lim # 0 THEN PyPrefix(syms, lim) ELSE syms

\* strings the Symbol column of a source document may hold
RawSymbols == {<<"A">>, <<"B", ".", "B">>}

RECURSIVE SeqsUpTo(_, _)
SeqsUpTo(S, n) == IF n = 0 THEN {<<>>}
                  ELSE LET shorter == SeqsUpTo(S, n - 1)
                       IN  shorter \cup {Append(s, x) : s \in shorter, x \in S}

\* Symbol columns a source document may have
Documents == SeqsUpTo(RawSymbols, MaxSyms)

\* number of the source the loop "for url in urls" contacts next
NextUrl == Len(attempts) + 1

\* one iteration of the loop whose body reaches the return statement:
\* requests.get or the urllib fallback delivers a text, read_csv parses it
\* and the document has a Symbol column
SourceSucceeds ==
    /\ pc = "resolve"
    /\ NextUrl <= Len(urls)
    /\ \E doc \in Documents :
          /\ tickers_list' = ApplyLimit(SymsOf(doc), max_tickers)
          /\ attempts' = Append(attempts, [url |-> NextUrl, ok |-> TRUE, doc |-> doc])
    /\ pc' = "download"
    /\ i' = 0
    /\ UNCHANGED <<max_tickers, chunk_size, requests, frames, pos, stats_frames,
                   rows_2024_counts, combined_monthly, artifact, warnings, error>>
    /\ UNCHANGED fileVars

\* the except clause re-raising instead of going on to the next source
SourceFailsAborts ==
    /\ pc = "resolve"
    /\ NextUrl <= Len(urls)
    /\ attempts' = Append(attempts, [url |-> NextUrl, ok |-> FALSE, doc |-> <<>>])
    /\ warnings' = Append(warnings, [kind |-> "fetch", who |-> urls[NextUrl]])
    /\ pc' = "failed"
    /\ error' = "RuntimeError"
    /\ UNCHANGED <<max_tickers, chunk_size, tickers_list, i, requests, frames,
                   pos, stats_frames, rows_2024_counts, combined_monthly, artifact>>
    /\ UNCHANGED fileVars

\* one iteration of the loop that ends in "except Exception": both transports
\* failed, or the text has no Symbol column; a warning is logged and the loop
\* goes on
SourceFails ==
    /\ pc = "resolve"
    /\ NextUrl <= Len(urls)
    /\ attempts' = Append(attempts, [url |-> NextUrl, ok |-> FALSE, doc |-> <<>>])
    /\ warnings' = Append(warnings, [kind |-> "fetch", who |-> urls[NextUrl]])
    /\ UNCHANGED <<pc, max_tickers, chunk_size, tickers_list, i, requests, frames,
                   pos, stats_frames, rows_2024_counts, combined_monthly,
                   artifact, error>>
    /\ UNCHANGED fileVars

\* the loop is exhausted: raise RuntimeError, which leaves run_sp500 and main
AllSourcesFailed ==
    /\ pc = "resolve"
    /\ NextUrl > Len(urls)
    /\ pc' = "failed"
    /\ error' = "RuntimeError"
    /\ UNCHANGED <<max_tickers, chunk_size, attempts, tickers_list, i, requests,
                   frames, pos, stats_frames, rows_2024_counts, combined_monthly,
                   artifact, warnings>>
    /\ UNCHANGED fileVars

(***************************************************************************)
(* dict, which keeps the insertion order of its keys                       *)
(***************************************************************************)
DictHas(d, key) == \E k \in DOMAIN d : d[k].k = key

DictGet(d, key) == d[CHOOSE k \in DOMAIN d : d[k].k = key].v

\* d[key] = val: a key already present keeps its position
DictSet(d, key, val) ==
    IF DictHas(d, key)
    THEN [k \in DOMAIN d |-> IF d[k].k = key THEN [k |-> key, v |-> val] ELSE d[k]]
    ELSE Append(d, [k |-> key, v |-> val])

(***************************************************************************)
(* The provider's daily tables                                             *)
(***************************************************************************)
DataFrame(index, columns) == [index |-> index, columns |-> columns]

Tables ==
    { \* rows outside the analysis window only: the day before and the day after
      DataFrame(<<(<<2023, 12, 31>>), <<2025, 1, 1>>>>,
                [c \in {"Close"} |-> <<5, 8>>]),
      \* the first day of the window and another row in the same month, then a
      \* month without rows, then a month with one row
      DataFrame(<<(<<2023, 12, 29>>), <<2024, 1, 1>>, <<2024, 1, 31>>, <<2024, 3, 15>>>>,
                [c \in {"Close"} |-> <<5, 10, 20, 30>>]),
      \* the last day of the window and the day after it
      DataFrame(<<(<<2024, 12, 31>>), <<2025, 1, 1>>>>,
                [c \in {"Close"} |-> <<7, 8>>]),
      \* no Close column, a row in the window
      DataFrame(<<(<<2024, 1, 15>>)>>, [c \in {"Open"} |-> <<10>>]),
      \* an index entry that is not a date
      DataFrame(<<(<<2024, 13, 1>>)>>, [c \in {"Close"} |-> <<10>>]) }

\* responses yf.download may give for a chunk: a table with MultiIndex columns
\* holding a sub-table for some of the chunk's tickers, or, for a chunk of one
\* ticker, a flat table
Responses(chunk) ==
    LET multi == UNION { [present -> Tables] : present \in SUBSET Range(chunk) }
        flat  == IF Len(chunk) = 1 THEN Tables ELSE {}
    IN  {[shape |-> "multi", sub |-> m, df |-> None] : m \in multi}
        \cup {[shape |-> "flat", sub |-> <<>>, df |-> t] : t \in flat}

(***************************************************************************)
(* chunked_download                                                        *)
(***************************************************************************)
\* the slice taken with its end included
ChunkAtInclusive(list, off, size) == PySlice(list, off, off + size + 1)

\* chunk = ticker_list[i : i + chunk_size]
ChunkAt(list, off, size) == PySlice(list, off, off + size)

\* for tk in chunk: if tk in df: frames[tk] = df[tk].copy()
RECURSIVE StoreMulti(_, _, _)
StoreMulti(fr, chunk, sub) ==
    IF chunk = <<>> THEN fr
    ELSE LET tk == Head(chunk)
         IN  StoreMulti(IF tk \in DOMAIN sub THEN DictSet(fr, tk, sub[tk]) ELSE fr,
                        Tail(chunk), sub)

\* for tk in chunk: ... else: logging.warning("No data returned for %s ...")
RECURSIVE WarnMissing(_, _)
WarnMissing(chunk, sub) ==
    IF chunk = <<>> THEN <<>>
    ELSE (IF Head(chunk) \in DOMAIN sub THEN <<>>
          ELSE <<[kind |-> "nodata", who |-> Head(chunk)]>>)
         \o WarnMissing(Tail(chunk), sub)

\* the two branches of "if isinstance(df.columns, pd.MultiIndex)"
StoreResponse(fr, chunk, resp) ==
    IF resp.shape = "multi" THEN StoreMulti(fr, chunk, resp.sub)
    ELSE DictSet(fr, chunk[1], resp.df)

\* one iteration of the loop over the chunks, the provider call returning
DownloadChunk ==
    /\ pc = "download"
    /\ i < Len(tickers_list)
    /\ LET chunk == ChunkAt(tickers_list, i, chunk_size)
       IN  \E resp \in Responses(chunk) :
              /\ frames' = StoreResponse(frames, chunk, resp)
              /\ warnings' = warnings \o
                     (IF resp.shape = "multi" THEN WarnMissing(chunk, resp.sub) ELSE <<>>)
              /\ requests' = Append(requests,
                     [chunk |-> chunk, shape |-> resp.shape,
                      present |-> IF resp.shape = "multi" THEN DOMAIN resp.sub
                                  ELSE {chunk[1]}])
    /\ i' = i + chunk_size
    /\ UNCHANGED <<pc, max_tickers, chunk_size, attempts, tickers_list, pos,
                   stats_frames, rows_2024_counts, combined_monthly, artifact, error>>
    /\ UNCHANGED fileVars

\* the provider call wrapped in a try that skips the failing chunk
DownloadRaisesSkipsChunk ==
    /\ pc = "download"
    /\ i < Len(tickers_list)
    /\ requests' = Append(requests,
           [chunk |-> ChunkAt(tickers_list, i, chunk_size), shape |-> "raised",
            present |-> {}])
    /\ i' = i + chunk_size
    /\ UNCHANGED <<pc, max_tickers, chunk_size, attempts, tickers_list, frames, pos,
                   stats_frames, rows_2024_counts, combined_monthly, artifact,
                   warnings, error>>
    /\ UNCHANGED fileVars

\* one iteration of the loop over the chunks, the provider call raising: the
\* exception leaves chunked_download, run_sp500 and (re-raised) main
DownloadRaises ==
    /\ pc = "download"
    /\ i < Len(tickers_list)
    /\ requests' = Append(requests,
           [chunk |-> ChunkAt(tickers_list, i, chunk_size), shape |-> "raised",
            present |-> {}])
    /\ pc' = "failed"
    /\ error' = "DownloadError"
    /\ UNCHANGED <<max_tickers, chunk_size, attempts, tickers_list, i, frames, pos,
                   stats_frames, rows_2024_counts, combined_monthly, artifact, warnings>>
    /\ UNCHANGED fileVars

\* range(0, len(ticker_list), chunk_size) is exhausted: return frames
DownloadReturns ==
    /\ pc = "download"
    /\ i >= Len(tickers_list)
    /\ pc' = "process"
    /\ pos' = 0
    /\ UNCHANGED <<max_tickers, chunk_size, attempts, tickers_list, i, requests,
                   frames, stats_frames, rows_2024_counts, combined_monthly,
                   artifact, warnings, error>>
    /\ UNCHANGED fileVars

(***************************************************************************)
(* monthly_stats_for_period                                                *)
(***************************************************************************)
IsLeap(y) == (y % 4 = 0 /\ y % 100 # 0) \/ y % 400 = 0

DaysIn(y, m) == IF m = 2 THEN (IF IsLeap(y) THEN 29 ELSE 28)
                ELSE IF m \in {4, 6, 9, 11} THEN 30 ELSE 31

\* pd.to_datetime accepts an index entry
IsDate(t) == t[2] \in 1..12 /\ t[3] \in 1..DaysIn(t[1], t[2])

\* order of timestamps
DateLeq(a, b) ==
    \/ a[1] < b[1]
    \/ a[1] = b[1] /\ a[2] < b[2]
    \/ a[1] = b[1] /\ a[2] = b[2] /\ a[3] <= b[3]

\* months counted from year 0, the bins of resample("ME")
MonthNo(t) == t[1] * 12 + (t[2] - 1)

MonthAbbr == <<"Jan", "Feb", "Mar", "Apr", "May", "Jun",
               "Jul", "Aug", "Sep", "Oct", "Nov", "Dec">>

\* strftime("%Y %b") of the month-end label of bin mo
PeriodLabel(mo) == <<mo \div 12, MonthAbbr[(mo % 12) + 1]>>

\* positions of df.loc[period_start:period_end], both bounds included
LocSlice(index, period_start, period_end) ==
    {k \in DOMAIN index : DateLeq(period_start, index[k]) /\ DateLeq(index[k], period_end)}

SeqMin(S) == CHOOSE x \in S : \A y \in S : x <= y

SeqMax(S) == CHOOSE x \in S : \A y \in S : x >= y

\* the mean as the fraction sum / count
Mean(close, ks) ==
    LET RECURSIVE Sum(_)
        Sum(K) == IF K = {} THEN 0
                  ELSE LET k == CHOOSE x \in K : TRUE IN close[k] + Sum(K \ {k})
    IN  Float(Sum(ks), Cardinality(ks))

\* one row of resample("ME").agg(["min", "max", "mean"]): a bin without values
\* is in the result, with NaN in every column
StatRow(index, close, ks, mo) ==
    LET bin == {k \in ks : MonthNo(index[k]) = mo}
    IN  IF bin = {}
        THEN [Period |-> PeriodLabel(mo), min |-> NaN, max |-> NaN, mean |-> NaN]
        ELSE [Period |-> PeriodLabel(mo),
              min  |-> Float(SeqMin({close[k] : k \in bin}), 1),
              max  |-> Float(SeqMax({close[k] : k \in bin}), 1),
              mean |-> Mean(close, bin)]

\* resample("ME"): one bin per calendar month from the month of the first row
\* of the slice to the month of the last one
Resample(index, close, ks) ==
    LET first == SeqMin({MonthNo(index[k]) : k \in ks})
        last  == SeqMax({MonthNo(index[k]) : k \in ks})
    IN  [n \in 1..(last - first + 1) |-> StatRow(index, close, ks, first + n - 1)]

\* result: raised (an exception left the function), stats, rows_used
monthly_stats_for_period(df, period_start, period_end) ==
    LET ks == LocSlice(df.index, period_start, period_end)
    IN  IF \E k \in DOMAIN df.index : ~IsDate(df.index[k])
        THEN [raised |-> TRUE, stats |-> <<>>, rows_used |-> 0]
        ELSE IF Cardinality(ks) = 0
        THEN [raised |-> FALSE, stats |-> <<>>, rows_used |-> 0]
        ELSE IF "Close" \notin DOMAIN df.columns
        THEN [raised |-> TRUE, stats |-> <<>>, rows_used |-> 0]
        ELSE [raised |-> FALSE,
              stats |-> Resample(df.index, df.columns["Close"], ks),
              rows_used |-> Cardinality(ks)]

(***************************************************************************)
(* run_sp500: processing, concatenation, save                              *)
(***************************************************************************)
WindowStart == <<2024, 1, 1>>

WindowEnd == <<2024, 12, 31>>

\* stats["Ticker"] = tk
WithTicker(stats, tk) ==
    [k \in DOMAIN stats |->
        [Period |-> stats[k].Period, min |-> stats[k].min, max |-> stats[k].max,
         mean |-> stats[k].mean, Ticker |-> tk]]

\* the try statement placed around the loop instead of inside it: the first
\* exception ends the loop
ProcessTickerTryAroundLoop ==
    /\ pc = "process"
    /\ pos < Len(frames)
    /\ LET tk  == frames[pos + 1].k
           res == monthly_stats_for_period(frames[pos + 1].v, WindowStart, WindowEnd)
       IN  IF res.raised
           THEN /\ warnings' = Append(warnings, [kind |-> "process", who |-> tk])
                /\ pos' = Len(frames)
                /\ UNCHANGED <<rows_2024_counts, stats_frames>>
           ELSE /\ rows_2024_counts' = DictSet(rows_2024_counts, tk, res.rows_used)
                /\ stats_frames' =
                       IF res.rows_used = 0 \/ res.stats = <<>> THEN stats_frames
                       ELSE Append(stats_frames, WithTicker(res.stats, tk))
                /\ pos' = pos + 1
                /\ UNCHANGED warnings
    /\ UNCHANGED <<pc, max_tickers, chunk_size, attempts, tickers_list, i, requests,
                   frames, combined_monthly, artifact, error>>
    /\ UNCHANGED fileVars

\* one iteration of "for tk, df in data_dict.items()"
ProcessTicker ==
    /\ pc = "process"
    /\ pos < Len(frames)
    /\ LET tk  == frames[pos + 1].k
           res == monthly_stats_for_period(frames[pos + 1].v, WindowStart, WindowEnd)
       IN  IF res.raised
           THEN /\ warnings' = Append(warnings, [kind |-> "process", who |-> tk])
                /\ UNCHANGED <<rows_2024_counts, stats_frames>>
           ELSE /\ rows_2024_counts' = DictSet(rows_2024_counts, tk, res.rows_used)
                /\ stats_frames' =
                       IF res.rows_used = 0 \/ res.stats = <<>> THEN stats_frames
                       ELSE Append(stats_frames, WithTicker(res.stats, tk))
                /\ UNCHANGED warnings
    /\ pos' = pos + 1
    /\ UNCHANGED <<pc, max_tickers, chunk_size, attempts, tickers_list, i, requests,
                   frames, combined_monthly, artifact, error>>
    /\ UNCHANGED fileVars

\* pd.concat(stats_frames, ignore_index=True), or the empty table
Concatenate ==
    /\ pc = "process"
    /\ pos >= Len(frames)
    /\ combined_monthly' = IF stats_frames # <<>> THEN Concat(stats_frames) ELSE <<>>
    /\ pc' = "save"
    /\ UNCHANGED <<max_tickers, chunk_size, attempts, tickers_list, i, requests,
                   frames, pos, stats_frames, rows_2024_counts, artifact, warnings,
                   error>>
    /\ UNCHANGED fileVars

\* combined_monthly.to_csv(out_csv, index=False)
Save ==
    /\ pc = "save"
    /\ artifact' = [written |-> TRUE, rows |-> combined_monthly]
    /\ pc' = "done"
    /\ UNCHANGED <<max_tickers, chunk_size, attempts, tickers_list, i, requests,
                   frames, pos, stats_frames, rows_2024_counts, combined_monthly,
                   warnings, error>>
    /\ UNCHANGED fileVars

(***************************************************************************)
(* load_tickers_from_file                                                  *)
(***************************************************************************)
LowerCase == <<"a", "b", "c", "d", "e", "f", "g", "h", "i", "j", "k", "l", "m",
               "n", "o", "p", "q", "r", "s", "t", "u", "v", "w", "x", "y", "z">>

UpperCase == <<"A", "B", "C", "D", "E", "F", "G", "H", "I", "J", "K", "L", "M",
               "N", "O", "P", "Q", "R", "S", "T", "U", "V", "W", "X", "Y", "Z">>

Whitespace == {" "}

\* str.upper()
UpperChar(c) == IF \E k \in DOMAIN LowerCase : LowerCase[k] = c
                THEN UpperCase[CHOOSE k \in DOMAIN LowerCase : LowerCase[k] = c]
                ELSE c

Upper(s) == [k \in DOMAIN s |-> UpperChar(s[k])]

\* ln.split("#", 1)[0]
BeforeHash(ln) ==
    IF \E k \in DOMAIN ln : ln[k] = "#"
    THEN SubSeq(ln, 1, (CHOOSE k \in DOMAIN ln :
                           ln[k] = "#" /\ \A j \in 1..(k - 1) : ln[j] # "#") - 1)
    ELSE ln

\* str.strip()
RECURSIVE LStrip(_)
LStrip(s) == IF s # <<>> /\ Head(s) \in Whitespace THEN LStrip(Tail(s)) ELSE s

RECURSIVE RStrip(_)
RStrip(s) == IF s # <<>> /\ s[Len(s)] \in Whitespace
             THEN RStrip(SubSeq(s, 1, Len(s) - 1)) ELSE s

\* lstrip() in place of strip()
StripLeftOnly(s) == LStrip(s)

Strip(s) == RStrip(LStrip(s))

\* the loop "for ln in fh" with its continue and its break
RECURSIVE ReadLines(_, _, _)
ReadLines(rest, lines, lim) ==
    IF rest = <<>> THEN lines
    ELSE LET s == Strip(BeforeHash(Head(rest)))
         IN  IF s = <<>> THEN ReadLines(Tail(rest), lines, lim)
             ELSE LET lines2 == Append(lines, Upper(s))
                  IN  IF lim # 0 /\ Len(lines2) >= lim THEN lines2
                      ELSE ReadLines(Tail(rest), lines2, lim)

\* the loop "for t in lines" that removes duplicates
RECURSIVE RemoveDuplicates(_, _, _)
RemoveDuplicates(lines, seen, acc) ==
    IF lines = <<>> THEN acc
    ELSE IF Head(lines) \notin seen
         THEN RemoveDuplicates(Tail(lines), seen \cup {Head(lines)}, Append(acc, Head(lines)))
         ELSE RemoveDuplicates(Tail(lines), seen, acc)

load_tickers_from_file(path, lim) ==
    RemoveDuplicates(ReadLines(path, <<>>, lim), {}, <<>>)

ExampleFile == << <<"A", "A", "P", "L">>, <<"a", "a", "p", "l">>,
                  <<"#", " ", "c", "o", "m", "m", "e", "n", "t">>, <<>>,
                  <<"M", "S", "F", "T", " ", "#", " ", "n", "o", "t", "e">> >>

\* lines a ticker file may have
Lines == { <<>>, <<" ">>, <<"#", "a">>, <<"a">>, <<"A">>, <<"b">>, <<" ", "a", " ">>,
           <<"a", "#", "b">>, <<"b", " ", "#", " ", "a", "#">>, <<"a", " ", "b">> }

\* contents a ticker file may have
Files == SeqsUpTo(Lines, MaxLines) \cup {ExampleFile}

LoadTickers ==
    /\ ~out.returned
    /\ out' = [returned |-> TRUE, value |-> load_tickers_from_file(fh, limit)]
    /\ UNCHANGED <<fh, limit>>
    /\ UNCHANGED runVars

(***************************************************************************)
(* Specifications                                                          *)
(***************************************************************************)
InitRun ==
    /\ pc = "resolve"
    /\ attempts = <<>>
    /\ tickers_list = <<>>
    /\ i = 0
    /\ requests = <<>>
    /\ frames = <<>>
    /\ pos = 0
    /\ stats_frames = <<>>
    /\ rows_2024_counts = <<>>
    /\ combined_monthly = <<>>
    /\ artifact = [written |-> FALSE, rows |-> <<>>]
    /\ warnings = <<>>
    /\ error = None

\* main with --sp500: run_sp500(max_tickers, chunk_size)
Init ==
    /\ InitRun
    /\ max_tickers \in 0..MaxLimit
    /\ chunk_size \in 1..MaxChunkSize
    /\ fh = <<>>
    /\ limit = 0
    /\ out = [returned |-> FALSE, value |-> <<>>]

Next ==
    \/ SourceSucceeds
    \/ SourceFails
    \/ AllSourcesFailed
    \/ DownloadChunk
    \/ DownloadRaises
    \/ DownloadReturns
    \/ ProcessTicker
    \/ Concatenate
    \/ Save

Spec == Init /\ [][Next]_vars

\* a call of load_tickers_from_file(path), without limit
InitLoad ==
    /\ InitRun
    /\ max_tickers = 0
    /\ chunk_size = 1
    /\ fh \in Files
    /\ limit = 0
    /\ out = [returned |-> FALSE, value |-> <<>>]

NextLoad == LoadTickers

SpecLoad == InitLoad /\ [][NextLoad]_vars

\* a call of load_tickers_from_file(path, limit) with a limit
InitLoadLimit ==
    /\ InitRun
    /\ max_tickers = 0
    /\ chunk_size = 1
    /\ fh \in Files
    /\ limit \in 1..MaxLimit
    /\ out = [returned |-> FALSE, value |-> <<>>]

SpecLoadLimit == InitLoadLimit /\ [][NextLoad]_vars

(***************************************************************************)
(* Properties                                                              *)
(***************************************************************************)
NoDuplicates(s) == \A a, b \in DOMAIN s : s[a] = s[b] => a = b

FirstIndex(s, x) == CHOOSE k \in DOMAIN s : s[k] = x /\ \A j \in 1..(k - 1) : s[j] # x

Chunks == [k \in DOMAIN requests |-> requests[k].chunk]

CeilDiv(n, d) == (n + d - 1) \div d

Downloaded == pc \in {"process", "save", "done"}

ProcessFailed(tk) == \E k \in DOMAIN warnings :
                        warnings[k].kind = "process" /\ warnings[k].who = tk

\* C1: chunked_download cuts the ticker list into contiguous slices of at most
\* chunk_size tickers in the original order; when it returns it has issued
\* ceil(len / chunk_size) requests whose chunks concatenate to the input list,
\* and every key of the returned map is a ticker of the list.
C1_ChunksPartitionTickers ==
    /\ \A k \in DOMAIN Chunks : Len(Chunks[k]) >= 1 /\ Len(Chunks[k]) <= chunk_size
    /\ Len(Concat(Chunks)) <= Len(tickers_list)
    /\ Concat(Chunks) = SubSeq(tickers_list, 1, Len(Concat(Chunks)))
    /\ \A k \in DOMAIN frames : frames[k].k \in Range(tickers_list)
    /\ Downloaded =>
          /\ Len(requests) = CeilDiv(Len(tickers_list), chunk_size)
          /\ Concat(Chunks) = tickers_list

C1_Witness ==
    /\ pc = "done"
    /\ chunk_size = 2
    /\ Len(tickers_list) = 3
    /\ Len(requests) = 2
    /\ Len(requests[2].chunk) = 1

\* C2: a ticker without sub-table in the multi-ticker response of its chunk is
\* absent from the returned map and from the combined table, the tickers of
\* the chunk that have a sub-table are in the map, and all chunks are requested.
C2_MissingTickerOmitted ==
    Downloaded =>
       /\ Len(requests) = CeilDiv(Len(tickers_list), chunk_size)
       /\ \A k \in DOMAIN requests :
             requests[k].shape = "multi" =>
                /\ \A tk \in Range(requests[k].chunk) \ requests[k].present :
                      /\ ~DictHas(frames, tk)
                      /\ \A r \in DOMAIN combined_monthly : combined_monthly[r].Ticker # tk
                /\ \A tk \in requests[k].present : DictHas(frames, tk)

\* C3: an exception while one ticker is aggregated does not end the run: the
\* ticker is logged and has no row, every other ticker of the map is
\* aggregated, the artifact is written, and its content is what the map
\* without the failing tickers yields.
C3_AggregationFailureIsolated ==
    LET ok == SelectSeq(frames, LAMBDA e : ~ProcessFailed(e.k))
        results == [k \in DOMAIN ok |->
                       WithTicker(monthly_stats_for_period(ok[k].v, WindowStart,
                                                           WindowEnd).stats, ok[k].k)]
    IN  /\ (\E k \in DOMAIN warnings : warnings[k].kind = "process") =>
              pc \in {"process", "save", "done"} /\ error = None
        /\ pc = "done" =>
              /\ artifact.written
              /\ artifact.rows = Concat(results)
              /\ \A k \in DOMAIN frames :
                    \/ ProcessFailed(frames[k].k)
                    \/ DictHas(rows_2024_counts, frames[k].k)
              /\ \A k \in DOMAIN frames :
                    ProcessFailed(frames[k].k) =>
                       \A r \in DOMAIN artifact.rows : artifact.rows[r].Ticker # frames[k].k

C3_Witness ==
    /\ pc = "done"
    /\ Len(frames) = 2
    /\ ProcessFailed(frames[1].k)
    /\ artifact.written
    /\ \E r \in DOMAIN artifact.rows : artifact.rows[r].Ticker = frames[2].k

\* C4: when the resolution fails or the provider call of a chunk raises, the
\* error leaves run_sp500 and the artifact is not written; the artifact is
\* written only after all chunks were retrieved and all tickers processed.
C4_FatalErrorsWriteNothing ==
    /\ artifact.written =>
          /\ pc = "done"
          /\ error = None
          /\ attempts # <<>> /\ attempts[Len(attempts)].ok
          /\ \A k \in DOMAIN requests : requests[k].shape # "raised"
          /\ Concat(Chunks) = tickers_list
          /\ pos = Len(frames)
    /\ (\E k \in DOMAIN requests : requests[k].shape = "raised") =>
          pc = "failed" /\ error = "DownloadError" /\ ~artifact.written
    /\ (Len(attempts) = Len(urls) /\ \A k \in DOMAIN attempts : ~attempts[k].ok) =>
          pc \in {"resolve", "failed"} /\ ~artifact.written
    /\ pc = "failed" => error # None /\ ~artifact.written
    /\ pc = "done" => artifact.written

C4_Witness ==
    /\ pc = "failed"
    /\ error = "DownloadError"
    /\ Len(requests) = 2
    /\ frames # <<>>
    /\ ~artifact.written

\* C5: the sources are tried in their fixed order, a source only after all
\* sources before it failed; the result is the symbol list of the first source
\* that succeeds; the error is raised exactly when every source has failed.
C5_SourcesInPriorityOrder ==
    /\ Len(attempts) <= Len(urls)
    /\ \A k \in DOMAIN attempts : attempts[k].url = k
    /\ \A k \in DOMAIN attempts : k < Len(attempts) => ~attempts[k].ok
    /\ \A k \in DOMAIN attempts :
          ~attempts[k].ok <=>
             \E w \in DOMAIN warnings :
                warnings[w].kind = "fetch" /\ warnings[w].who = urls[k]
    /\ pc = "resolve" => \A k \in DOMAIN attempts : ~attempts[k].ok
    /\ (pc # "resolve" /\ error # "RuntimeError") =>
          /\ attempts # <<>>
          /\ attempts[Len(attempts)].ok
          /\ LET syms == SymsOf(attempts[Len(attempts)].doc)
             IN  tickers_list = IF max_tickers = 0 THEN syms
                                ELSE SubSeq(syms, 1, MinOf(max_tickers, Len(syms)))
    /\ error = "RuntimeError" =>
          /\ pc = "failed"
          /\ Len(attempts) = Len(urls)
          /\ \A k \in DOMAIN attempts : ~attempts[k].ok

C5_Witness ==
    /\ pc = "download"
    /\ Len(attempts) = 2
    /\ ~attempts[1].ok
    /\ attempts[2].ok
    /\ tickers_list # <<>>

\* month number of a Period label
MonthOfLabel(p) == p[1] * 12 + (CHOOSE m \in DOMAIN MonthAbbr : MonthAbbr[m] = p[2]) - 1

\* C6: when no aggregation raises, the combined table has a row for a ticker
\* and a month exactly when the ticker's raw table has a row of that month in
\* the window, and a ticker without row in the window has rows_used = 0.
C6_RowIffObservation ==
    (pc \in {"save", "done"} /\ \A k \in DOMAIN warnings : warnings[k].kind # "process") =>
       \A k \in DOMAIN frames :
          LET tk == frames[k].k
              index == frames[k].v.index
              inWindow == LocSlice(index, WindowStart, WindowEnd)
          IN  /\ \A mo \in MonthNo(WindowStart)..MonthNo(WindowEnd) :
                    (\E r \in DOMAIN combined_monthly :
                        /\ combined_monthly[r].Ticker = tk
                        /\ combined_monthly[r].Period = PeriodLabel(mo))
                    <=> (\E d \in inWindow : MonthNo(index[d]) = mo)
              /\ inWindow = {} => DictGet(rows_2024_counts, tk) = 0

\* C7: the combined table is the concatenation of the non-empty per-ticker
\* results: the rows of a ticker are contiguous, the blocks are in the order of
\* first occurrence of the tickers in the resolved list, the rows of a block
\* are in ascending month order, and each row carries the ticker whose raw
\* table produced it.
C7_CombinedTableOrder ==
    pc \in {"save", "done"} =>
       LET T == combined_monthly
       IN  /\ \A a, b, c \in DOMAIN T :
                 (a < b /\ b < c /\ T[a].Ticker = T[c].Ticker) => T[b].Ticker = T[a].Ticker
           /\ \A a, b \in DOMAIN T :
                 (a < b /\ T[a].Ticker # T[b].Ticker) =>
                    FirstIndex(tickers_list, T[a].Ticker) < FirstIndex(tickers_list, T[b].Ticker)
           /\ \A a, b \in DOMAIN T :
                 (a < b /\ T[a].Ticker = T[b].Ticker) =>
                    MonthOfLabel(T[a].Period) < MonthOfLabel(T[b].Period)
           /\ \A a \in DOMAIN T :
                 /\ DictHas(frames, T[a].Ticker)
                 /\ LET res == monthly_stats_for_period(DictGet(frames, T[a].Ticker),
                                                        WindowStart, WindowEnd)
                    IN  \E k \in DOMAIN res.stats : WithTicker(res.stats, T[a].Ticker)[k] = T[a]

\* the token a line of the file yields
TokenOf(ln) == Upper(Strip(BeforeHash(ln)))

\* C8: without limit, load_tickers_from_file returns the tokens of the lines
\* (cut at the first '#', stripped, upper-cased, empty ones dropped) without
\* duplicates in first-seen order; the lines AAPL, aapl, '# comment', '',
\* 'MSFT # note' yield AAPL, MSFT.
C8_LoadTickersNormalises ==
    (out.returned /\ limit = 0) =>
       /\ NoDuplicates(out.value)
       /\ \A k \in DOMAIN out.value :
             /\ out.value[k] # <<>>
             /\ \A c \in DOMAIN out.value[k] : out.value[k][c] \notin Range(LowerCase) /\ out.value[k][c] # "#"
             /\ out.value[k][1] \notin Whitespace
             /\ out.value[k][Len(out.value[k])] \notin Whitespace
       /\ Range(out.value) = {TokenOf(fh[k]) : k \in DOMAIN fh} \ {<<>>}
       /\ \A a, b \in DOMAIN out.value :
             a < b => (CHOOSE k \in DOMAIN fh : TokenOf(fh[k]) = out.value[a]
                                                /\ \A j \in 1..(k - 1) : TokenOf(fh[j]) # out.value[a])
                      < (CHOOSE k \in DOMAIN fh : TokenOf(fh[k]) = out.value[b]
                                                /\ \A j \in 1..(k - 1) : TokenOf(fh[j]) # out.value[b])
       /\ fh = ExampleFile => out.value = << <<"A", "A", "P", "L">>, <<"M", "S", "F", "T">> >>

C8_Witness ==
    /\ fh = ExampleFile
    /\ limit = 0
    /\ out.returned
    /\ out.value = << <<"A", "A", "P", "L">>, <<"M", "S", "F", "T">> >>

\* C9: with a limit N >= 1, load_tickers_from_file returns the first N entries
\* of the list it returns without limit.
C9_LimitIsPrefixOfUnlimited ==
    (out.returned /\ limit >= 1) =>
       out.value = SubSeq(load_tickers_from_file(fh, 0), 1,
                    MinOf(limit, Len(load_tickers_from_file(fh, 0))))

\* C10: the ticker list returned by fetch_sp500_symbols has no ticker twice.
C10_ResolvedListDuplicateFree ==
    (attempts # <<>> /\ attempts[Len(attempts)].ok) => NoDuplicates(tickers_list)

====
